---- MODULE Spec2Model ----
(***************************************************************************)
(* The CMA channel of tensorpipe (tensorpipe/channel/cma/cma.{h,cc}): a    *)
(* context with its copy worker thread and request queue, a channel with   *)
(* its cooperative loop (deferToLoop_), the send/recv protocol, close and  *)
(* error handling.  Two endpoints "A" and "B" form a channel pair; every   *)
(* variable is a function of the endpoint.                                 *)
(***************************************************************************)
EXTENDS Integers, Sequences, FiniteSets, TLC

\* ------------------------------------------------------------------ bounds
MaxSends == 2
MaxRecvs == 1
MaxLength == 1
MaxCloses == 1
MaxJoins == 1
\* sends of "A" and recvs of "B" on the channel pair
MaxPairOps == 3
\* recvs of the endpoint whose copies are followed
MaxCopyRecvs == 2
\* calls of Context::join when two user threads join
MaxLiveJoins == 2

\* --------------------------------------------------------------- constants
Endpoints == {"A", "B"}
Peer(e) == IF e = "A" THEN "B" ELSE "A"
\* threads of one process: two user threads, the context's worker thread_
\* and the thread on which the transport runs its callbacks
Users == {"u1", "u2"}
\* the user thread that owns the channel and calls it
ChannelUsers == {"u1"}
Worker == "w"
Transport == "t"
Threads == Users \cup {Worker, Transport}
\* std::thread::id(): no thread
NoThread == "none"

\* Error::kSuccess and the error classes
Success == "Success"
ChannelClosedError == "ChannelClosedError"
SystemError == "SystemError"
ShortReadError == "ShortReadError"
TransportError == "TransportError"

\* a task of the loop (a std::function<void()>): which method it runs and
\* what it captured
Fn(type, cb, id, arg) == [type |-> type, cb |-> cb, id |-> id, arg |-> arg]
NoFn == Fn("none", 0, 0, Success)
\* nullopt, the shutdown sentinel of the request queue
NullOpt == [rid |-> -1, id |-> 0, len |-> 0]
\* CopyRequest: rid names the recv whose callback it carries, id the
\* operation id of the descriptor
CopyRequest(rid, id, len) == [rid |-> rid, id |-> id, len |-> len]

VARIABLES
  \* Context::Impl
  closed_, joined_, mutex_, requests_, closingEmitter_,
  \* Channel::Impl
  created, currentLoop_, pendingTasks_, error_, id_, sendOperations_,
  closingReceiver_,
  \* transport::Connection of the channel, the packets in flight to each
  \* endpoint and whether the connection has failed
  connection_, wire, broken,
  \* threads: position, return addresses, the task in hand
  pc, stack, task,
  \* a fatal assertion (TP_THROW_ASSERT) ended the process
  aborted,
  \* the number of calls of each kind the user threads make at most
  limit,
  \* history: calls made and callbacks invoked
  calls, descriptorCbLog, sendCbLog, recvCbLog, recvLog, writeLog,
  recvd,
  \* history: the invocations of process_vm_readv
  copyLog

ctxVars == <<closed_, joined_, mutex_, requests_, closingEmitter_>>
chanVars == <<created, error_, id_, sendOperations_, closingReceiver_>>
loopVars == <<currentLoop_, pendingTasks_>>
connVars == <<connection_, wire, broken>>
thrVars == <<pc, stack, task>>
histVars == <<calls, descriptorCbLog, sendCbLog, recvCbLog, recvLog, writeLog,
              recvd, copyLog>>
vars == <<ctxVars, chanVars, loopVars, connVars, thrVars, aborted, limit,
          histVars>>

\* ------------------------------------------------------------------- Init
\* the state after the construction of the two contexts: the workers run,
\* no channel exists yet
Constructed ==
  /\ closed_ = [e \in Endpoints |-> FALSE]
  /\ joined_ = [e \in Endpoints |-> FALSE]
  /\ mutex_ = [e \in Endpoints |-> NoThread]
  /\ requests_ = [e \in Endpoints |-> <<>>]
  /\ closingEmitter_ = [e \in Endpoints |-> FALSE]
  /\ created = [e \in Endpoints |-> FALSE]
  /\ currentLoop_ = [e \in Endpoints |-> NoThread]
  /\ pendingTasks_ = [e \in Endpoints |-> <<>>]
  /\ error_ = [e \in Endpoints |-> Success]
  /\ id_ = [e \in Endpoints |-> 0]
  /\ sendOperations_ = [e \in Endpoints |-> <<>>]
  /\ closingReceiver_ = [e \in Endpoints |-> FALSE]
  /\ connection_ = [e \in Endpoints |->
                      [reads |-> 0, writes |-> <<>>, closed |-> FALSE,
                       closes |-> 0]]
  /\ wire = [e \in Endpoints |-> <<>>]
  /\ broken = FALSE
  /\ pc = [e \in Endpoints |->
             [t \in Threads |-> IF t = Worker THEN "pop" ELSE "idle"]]
  /\ stack = [e \in Endpoints |-> [t \in Threads |-> <<>>]]
  /\ task = [e \in Endpoints |-> [t \in Threads |-> NoFn]]
  /\ aborted = [e \in Endpoints |-> FALSE]
  /\ calls = [e \in Endpoints |->
                [send |-> 0, recv |-> 0, close |-> 0, ctxclose |-> 0,
                 join |-> 0]]
  /\ descriptorCbLog = [e \in Endpoints |-> <<>>]
  /\ sendCbLog = [e \in Endpoints |-> <<>>]
  /\ recvCbLog = [e \in Endpoints |-> <<>>]
  /\ recvLog = [e \in Endpoints |-> <<>>]
  /\ writeLog = [e \in Endpoints |-> <<>>]
  /\ recvd = [e \in Endpoints |-> {}]
  /\ copyLog = [e \in Endpoints |-> <<>>]

Init ==
  /\ Constructed
  /\ limit = [send |-> MaxSends, recv |-> MaxRecvs, close |-> MaxCloses,
              ctxclose |-> MaxCloses, join |-> MaxJoins]

\* ------------------------------------------------------------ pure helpers
\* the elements of a sequence
Range(s) == {s[i] : i \in DOMAIN s}

\* handleCopyRequests_ that takes every return value but -1 for success
CopyResultNoShort(nread, length) ==
  IF nread = -1 THEN SystemError ELSE Success

\* handleCopyRequests_: the error handed to the request's callback for the
\* return value nread of process_vm_readv
CopyResult(nread, length) ==
  IF nread = -1 THEN SystemError
  ELSE IF nread # length THEN ShortReadError
  ELSE Success

\* std::find_if over sendOperations_: the first position holding id, 0 for
\* end()
FindOperation(ops, id) ==
  IF \E i \in DOMAIN ops : ops[i].id = id
    THEN CHOOSE i \in DOMAIN ops :
           ops[i].id = id /\ \A j \in 1..(i - 1) : ops[j].id # id
    ELSE 0

\* an erase of the first operation, whichever was found
EraseOperationFirst(ops, i) == Tail(ops)

\* an erase that empties the list
EraseOperationAll(ops, i) == <<>>

\* sendOperations_.erase(it)
EraseOperation(ops, i) ==
  [j \in 1..(Len(ops) - 1) |-> IF j < i THEN ops[j] ELSE ops[j + 1]]

\* transport::Connection: read, write and close as the channel calls them
ConnectionRead(conn) == [conn EXCEPT !.reads = @ + 1]
ConnectionWrite(conn, id) == [conn EXCEPT !.writes = Append(@, id)]
ConnectionClose(conn) ==
  [conn EXCEPT !.closed = TRUE, !.closes = @ + 1]

\* the callbacks handleError_ invokes: one per pending operation, in list
\* order, each with the channel's error
ErrorCallbacks(ops, err) ==
  [i \in 1..Len(ops) |-> [cb |-> ops[i].cb, err |-> err]]

\* handleError_ that forgets the callbacks of the pending operations
handleError_Silent(e, err) ==
  [ops |-> <<>>, log |-> sendCbLog[e], conn |-> ConnectionClose(connection_[e])]

\* handleError_ that leaves the connection open
handleError_NoClose(e, err) ==
  [ops |-> <<>>,
   log |-> sendCbLog[e] \o ErrorCallbacks(sendOperations_[e], err),
   conn |-> connection_[e]]

\* handleError_ with error_ = err: the in-flight list after the move, the
\* send callbacks invoked and the connection closed
handleError_(e, err) ==
  [ops |-> <<>>,
   log |-> sendCbLog[e] \o ErrorCallbacks(sendOperations_[e], err),
   conn |-> ConnectionClose(connection_[e])]

\* a loop task that does not run handleError_
NoError(e) ==
  [ops |-> sendOperations_[e], log |-> sendCbLog[e], conn |-> connection_[e]]

\* ------------------------------------------------------ the cooperative loop
\* a queue of tasks that puts the new task first
push_front(tasks, fn) == <<fn>> \o tasks

\* pendingTasks_.push_back(fn)
push_back(tasks, fn) == Append(tasks, fn)

\* where a thread goes on when a call returns to ret: "closed" is the
\* return of Channel::close to the user
Resume(ret) == IF ret = "closed" THEN "idle" ELSE ret

\* deferToLoop_ that starts to run the loop whether or not a thread runs it
deferToLoop_Always(e, t, fn, ret) ==
  /\ pendingTasks_' = [pendingTasks_ EXCEPT ![e] = push_back(@, fn)]
  /\ currentLoop_' = [currentLoop_ EXCEPT ![e] = t]
  /\ pc' = [pc EXCEPT ![e][t] = "loop"]
  /\ stack' = [stack EXCEPT ![e][t] = <<ret>> \o @]

\* deferToLoop_(fn) called on thread t, which goes on at ret when the call
\* returns: append under the lock; return if a thread runs the loop,
\* otherwise become that thread
deferToLoop_(e, t, fn, ret) ==
  /\ pendingTasks_' = [pendingTasks_ EXCEPT ![e] = push_back(@, fn)]
  /\ IF currentLoop_[e] # NoThread
       THEN /\ pc' = [pc EXCEPT ![e][t] = Resume(ret)]
            /\ UNCHANGED <<currentLoop_, stack>>
       ELSE /\ currentLoop_' = [currentLoop_ EXCEPT ![e] = t]
            /\ pc' = [pc EXCEPT ![e][t] = "loop"]
            /\ stack' = [stack EXCEPT ![e][t] = <<ret>> \o @]

\* a turn of the while loop that leaves without looking at the queue
loopTurnLeaves(e, t) ==
  /\ ~aborted[e]
  /\ pc[e][t] = "loop"
  /\ currentLoop_' = [currentLoop_ EXCEPT ![e] = NoThread]
  /\ pc' = [pc EXCEPT ![e][t] = Resume(Head(stack[e][t]))]
  /\ stack' = [stack EXCEPT ![e][t] = Tail(@)]
  /\ UNCHANGED <<limit, ctxVars, chanVars, connVars, pendingTasks_, task,
                 aborted, histVars>>

\* one turn of the while loop of deferToLoop_: under the lock, leave when
\* no task is pending, otherwise take the front task
loopTurn(e, t) ==
  /\ ~aborted[e]
  /\ pc[e][t] = "loop"
  /\ IF pendingTasks_[e] = <<>>
       THEN /\ currentLoop_' = [currentLoop_ EXCEPT ![e] = NoThread]
            /\ pc' = [pc EXCEPT ![e][t] = Resume(Head(stack[e][t]))]
            /\ stack' = [stack EXCEPT ![e][t] = Tail(@)]
            /\ UNCHANGED <<pendingTasks_, task>>
       ELSE /\ task' = [task EXCEPT ![e][t] = Head(pendingTasks_[e])]
            /\ pendingTasks_' = [pendingTasks_ EXCEPT ![e] = Tail(@)]
            /\ pc' = [pc EXCEPT ![e][t] = "task"]
            /\ UNCHANGED <<currentLoop_, stack>>
  /\ UNCHANGED <<limit, ctxVars, chanVars, connVars,  aborted, histVars>>

\* thread t is about to run task(): a task of the given type
Running(e, t, type) ==
  /\ ~aborted[e]
  /\ pc[e][t] = "task"
  /\ task[e][t].type = type

\* task() returned: back to the head of the while loop
Returned(e, t) ==
  /\ pc' = [pc EXCEPT ![e][t] = "loop"]
  /\ task' = [task EXCEPT ![e][t] = NoFn]
  /\ UNCHANGED stack

\* a user thread between two calls
Idle(e, u) == ~aborted[e] /\ pc[e][u] = "idle"

\* ------------------------------------------------------- Channel: user calls
\* Context::Impl::createChannel: the assertion on joined_, the constructor
\* and init_(), which defers initFromLoop_
createChannel(e, u) ==
  /\ Idle(e, u)
  /\ ~created[e]
  /\ IF joined_[e]
       THEN /\ aborted' = [aborted EXCEPT ![e] = TRUE]
            /\ UNCHANGED <<created, loopVars, pc, stack>>
       ELSE /\ created' = [created EXCEPT ![e] = TRUE]
            /\ deferToLoop_(e, u, Fn("init", 0, 0, Success), "idle")
            /\ UNCHANGED aborted
  /\ UNCHANGED <<limit, ctxVars, error_, id_, sendOperations_, closingReceiver_,
                 connVars, task,  histVars>>

\* Channel::Impl::send: defers sendFromLoop_; cb names the call's callbacks
ChannelSend(e, u) ==
  /\ Idle(e, u)
  /\ created[e]
  /\ calls[e].send < limit.send
  /\ deferToLoop_(e, u, Fn("send", calls[e].send, 0, Success), "idle")
  /\ calls' = [calls EXCEPT ![e].send = @ + 1]
  /\ UNCHANGED <<limit, ctxVars, chanVars, connVars, task,  aborted,
                 descriptorCbLog, sendCbLog, recvCbLog, recvLog, writeLog, copyLog,
                 recvd>>

\* Channel::Impl::recv with the descriptor of the peer's operation id and
\* the given length: defers recvFromLoop_
ChannelRecv(e, u, id, length) ==
  /\ Idle(e, u)
  /\ created[e]
  /\ calls[e].recv < limit.recv
  /\ id \notin recvd[e]
  /\ deferToLoop_(e, u, Fn("recv", calls[e].recv, id, length), "idle")
  /\ calls' = [calls EXCEPT ![e].recv = @ + 1]
  /\ recvd' = [recvd EXCEPT ![e] = @ \cup {id}]
  /\ UNCHANGED <<limit, ctxVars, chanVars, connVars, task,  aborted,
                 descriptorCbLog, sendCbLog, recvCbLog, recvLog, writeLog, copyLog>>

\* Channel::Impl::close: defers closeFromLoop_
ChannelClose(e, u) ==
  /\ Idle(e, u)
  /\ created[e]
  /\ calls[e].close < limit.close
  /\ deferToLoop_(e, u, Fn("close", 0, 0, Success), "closed")
  /\ calls' = [calls EXCEPT ![e].close = @ + 1]
  /\ UNCHANGED <<limit, ctxVars, chanVars, connVars, task,  aborted,
                 descriptorCbLog, sendCbLog, recvCbLog, recvLog, writeLog, copyLog,
                 recvd>>

\* ------------------------------------------------------- Context: user calls
\* Context::Impl::close with the lock of the FIXME comment taken: the caller
\* waits while another thread holds mutex_
ContextImplCloseLocked(e, t, ret) ==
  /\ mutex_[e] \in {NoThread, t}
  /\ closed_' = [closed_ EXCEPT ![e] = TRUE]
  /\ IF closed_[e]
       THEN /\ pc' = [pc EXCEPT ![e][t] = ret]
            /\ UNCHANGED stack
       ELSE /\ pc' = [pc EXCEPT ![e][t] = "emit"]
            /\ stack' = [stack EXCEPT ![e][t] = <<ret>> \o @]

\* Context::Impl::close that goes on whatever closed_ was
ContextImplCloseAlways(e, t, ret) ==
  /\ closed_' = [closed_ EXCEPT ![e] = TRUE]
  /\ pc' = [pc EXCEPT ![e][t] = "emit"]
  /\ stack' = [stack EXCEPT ![e][t] = <<ret>> \o @]

\* Context::Impl::close up to the compare_exchange on closed_ (no lock is
\* taken); the caller goes on at ret afterwards
ContextImplClose(e, t, ret) ==
  /\ closed_' = [closed_ EXCEPT ![e] = TRUE]
  /\ IF closed_[e]
       THEN /\ pc' = [pc EXCEPT ![e][t] = ret]
            /\ UNCHANGED stack
       ELSE /\ pc' = [pc EXCEPT ![e][t] = "emit"]
            /\ stack' = [stack EXCEPT ![e][t] = <<ret>> \o @]

\* Context::close called by a user thread
ContextClose(e, u) ==
  /\ Idle(e, u)
  /\ calls[e].ctxclose < limit.ctxclose
  /\ ContextImplClose(e, u, "idle")
  /\ calls' = [calls EXCEPT ![e].ctxclose = @ + 1]
  /\ UNCHANGED <<limit, joined_, mutex_, requests_, closingEmitter_, chanVars,
                 loopVars, connVars, task,  aborted, descriptorCbLog,
                 sendCbLog, recvCbLog, recvLog, writeLog, copyLog, recvd>>

\* closingEmitter_.close(): the signal fires and the subscribed channel's
\* close() is called on this thread
closingEmitterClose(e, t) ==
  /\ ~aborted[e]
  /\ pc[e][t] = "emit"
  /\ closingEmitter_' = [closingEmitter_ EXCEPT ![e] = TRUE]
  /\ IF closingReceiver_[e]
       THEN deferToLoop_(e, t, Fn("close", 0, 0, Success), "sentinel")
       ELSE /\ pc' = [pc EXCEPT ![e][t] = "sentinel"]
            /\ UNCHANGED <<loopVars, stack>>
  /\ UNCHANGED <<limit, closed_, joined_, mutex_, requests_, chanVars, connVars,
                 task,  aborted, histVars>>

\* Context::Impl::close returning without the push of nullopt
pushSentinelSkipped(e, t) ==
  /\ ~aborted[e]
  /\ pc[e][t] = "sentinel"
  /\ pc' = [pc EXCEPT ![e][t] = Head(stack[e][t])]
  /\ stack' = [stack EXCEPT ![e][t] = Tail(@)]
  /\ UNCHANGED <<limit, ctxVars, chanVars, loopVars, connVars, task, aborted,
                 histVars>>

\* requests_.push(nullopt), the last statement of Context::Impl::close
pushSentinel(e, t) ==
  /\ ~aborted[e]
  /\ pc[e][t] = "sentinel"
  /\ requests_' = [requests_ EXCEPT ![e] = Append(@, NullOpt)]
  /\ pc' = [pc EXCEPT ![e][t] = Head(stack[e][t])]
  /\ stack' = [stack EXCEPT ![e][t] = Tail(@)]
  /\ UNCHANGED <<limit, closed_, joined_, mutex_, closingEmitter_, chanVars,
                 loopVars, connVars, task,  aborted, histVars>>

\* Context::join called by a user thread, which then waits for mutex_
ContextJoin(e, u) ==
  /\ Idle(e, u)
  /\ calls[e].join < limit.join
  /\ pc' = [pc EXCEPT ![e][u] = "join"]
  /\ calls' = [calls EXCEPT ![e].join = @ + 1]
  /\ UNCHANGED <<limit, ctxVars, chanVars, loopVars, connVars, stack, task, 
                 aborted, descriptorCbLog, sendCbLog, recvCbLog, recvLog,
                 writeLog, copyLog, recvd>>

\* Context::Impl::join: the lock is taken and close() is called
joinLock(e, u) ==
  /\ ~aborted[e]
  /\ pc[e][u] = "join"
  /\ mutex_[e] = NoThread
  /\ mutex_' = [mutex_ EXCEPT ![e] = u]
  /\ ContextImplClose(e, u, "joined")
  /\ UNCHANGED <<limit, joined_, requests_, closingEmitter_, chanVars, loopVars,
                 connVars, task,  aborted, histVars>>

\* Context::Impl::join: the compare_exchange on joined_; the call returns
\* (and the lock is released) when joined_ was set already
joinExchange(e, u) ==
  /\ ~aborted[e]
  /\ pc[e][u] = "joined"
  /\ joined_' = [joined_ EXCEPT ![e] = TRUE]
  /\ IF joined_[e]
       THEN /\ mutex_' = [mutex_ EXCEPT ![e] = NoThread]
            /\ pc' = [pc EXCEPT ![e][u] = "idle"]
       ELSE /\ pc' = [pc EXCEPT ![e][u] = "thread_join"]
            /\ UNCHANGED <<mutex_>>
  /\ UNCHANGED <<limit, closed_, requests_, closingEmitter_, chanVars, loopVars,
                 connVars, stack, task,  aborted, calls,
                 descriptorCbLog, sendCbLog, recvCbLog, recvLog, writeLog, copyLog,
                 recvd>>

\* Context::Impl::join: thread_.join() returns once the worker has left
\* handleCopyRequests_; the lock is released and join returns
joinThread(e, u) ==
  /\ ~aborted[e]
  /\ pc[e][u] = "thread_join"
  /\ pc[e][Worker] = "exited"
  /\ mutex_' = [mutex_ EXCEPT ![e] = NoThread]
  /\ pc' = [pc EXCEPT ![e][u] = "idle"]
  /\ UNCHANGED <<limit, closed_, joined_, requests_, closingEmitter_, chanVars,
                 loopVars, connVars, stack, task,  aborted, calls,
                 descriptorCbLog, sendCbLog, recvCbLog, recvLog, writeLog, copyLog,
                 recvd>>

\* ------------------------------------------------------------ the copy worker
\* requestCopy that puts the request before the queued ones
requestCopyFirst(requests, req) == <<req>> \o requests

\* Context::Impl::requestCopy
requestCopy(requests, req) == Append(requests, req)

\* handleCopyRequests_ that leaves the loop when process_vm_readv fails
handleCopyRequests_StopsOnError(e, nread) ==
  /\ ~aborted[e]
  /\ pc[e][Worker] = "pop"
  /\ requests_[e] # <<>>
  /\ requests_' = [requests_ EXCEPT ![e] = Tail(@)]
  /\ LET req == Head(requests_[e])
     IN IF req = NullOpt
          THEN /\ nread = 0
               /\ pc' = [pc EXCEPT ![e][Worker] = "exited"]
               /\ UNCHANGED <<loopVars, stack, copyLog>>
          ELSE /\ nread \in -1..req.len
               /\ copyLog' =
                    [copyLog EXCEPT
                       ![e] = Append(@, [cb |-> req.rid, length |-> req.len,
                                         nread |-> nread])]
               /\ deferToLoop_(e, Worker,
                               Fn("copy", req.rid, req.id,
                                  CopyResult(nread, req.len)),
                               IF nread = -1 THEN "exited" ELSE "pop")
  /\ UNCHANGED <<limit, closed_, joined_, mutex_, closingEmitter_, chanVars,
                 connVars, task, aborted, calls, descriptorCbLog, sendCbLog,
                 recvCbLog, recvLog, writeLog, recvd>>

\* one turn of the while loop of handleCopyRequests_: requests_.pop()
\* (blocking while the queue is empty), the break on nullopt, otherwise
\* process_vm_readv, which returns nread, and the request's callback called
\* with the outcome; the callback is the channel's copyCallbackWrapper_,
\* which defers to the loop on the worker thread
handleCopyRequests_(e, nread) ==
  /\ ~aborted[e]
  /\ pc[e][Worker] = "pop"
  /\ requests_[e] # <<>>
  /\ requests_' = [requests_ EXCEPT ![e] = Tail(@)]
  /\ LET req == Head(requests_[e])
     IN IF req = NullOpt
          THEN /\ nread = 0
               /\ pc' = [pc EXCEPT ![e][Worker] = "exited"]
               /\ UNCHANGED <<loopVars, stack, copyLog>>
          ELSE /\ nread \in -1..req.len
               /\ copyLog' =
                    [copyLog EXCEPT
                       ![e] = Append(@, [cb |-> req.rid, length |-> req.len,
                                         nread |-> nread])]
               /\ deferToLoop_(e, Worker,
                               Fn("copy", req.rid, req.id,
                                  CopyResult(nread, req.len)),
                               "pop")
  /\ UNCHANGED <<limit, closed_, joined_, mutex_, closingEmitter_, chanVars,
                 connVars, task, aborted, calls, descriptorCbLog, sendCbLog,
                 recvCbLog, recvLog, writeLog, recvd>>

\* ------------------------------------------------------------- the transport
\* the connection is usable: not closed on this side, not failed
Connected(e) == ~connection_[e].closed /\ ~broken

\* the transport completes the outstanding read with the next packet; the
\* callback is readPacketCallbackWrapper_, which defers to the loop
connectionRead(e) ==
  /\ ~aborted[e]
  /\ pc[e][Transport] = "idle"
  /\ connection_[e].reads > 0
  /\ Connected(e)
  /\ wire[e] # <<>>
  /\ connection_' = [connection_ EXCEPT ![e].reads = @ - 1]
  /\ wire' = [wire EXCEPT ![e] = Tail(@)]
  /\ deferToLoop_(e, Transport, Fn("read", 0, Head(wire[e]), Success),
                  "idle")
  /\ UNCHANGED <<limit, ctxVars, chanVars, broken, task,  aborted, histVars>>

\* the transport fails the outstanding read of a closed or failed connection
connectionReadError(e) ==
  /\ ~aborted[e]
  /\ pc[e][Transport] = "idle"
  /\ connection_[e].reads > 0
  /\ ~Connected(e)
  /\ connection_' = [connection_ EXCEPT ![e].reads = @ - 1]
  /\ deferToLoop_(e, Transport, Fn("read", 0, 0, TransportError), "idle")
  /\ UNCHANGED <<limit, ctxVars, chanVars, wire, broken, task,  aborted,
                 histVars>>

\* the transport completes the oldest write: the packet goes to the peer,
\* or the write fails on a closed or failed connection; the callback is
\* writePacketCallbackWrapper_, which defers to the loop
connectionWrite(e) ==
  /\ ~aborted[e]
  /\ pc[e][Transport] = "idle"
  /\ connection_[e].writes # <<>>
  /\ connection_' = [connection_ EXCEPT ![e].writes = Tail(@)]
  /\ IF Connected(e)
       THEN /\ wire' = [wire EXCEPT
                          ![Peer(e)] = Append(@, Head(connection_[e].writes))]
            /\ deferToLoop_(e, Transport, Fn("write", 0, 0, Success),
                            "idle")
       ELSE /\ deferToLoop_(e, Transport,
                            Fn("write", 0, 0, TransportError), "idle")
            /\ UNCHANGED wire
  /\ UNCHANGED <<limit, ctxVars, chanVars, broken, task,  aborted, histVars>>

\* the connection of endpoint e, still open, fails (the peer went away,
\* the socket broke)
connectionFails(e) ==
  /\ Connected(e)
  /\ broken' = TRUE
  /\ UNCHANGED <<limit, ctxVars, chanVars, loopVars, connection_, wire, thrVars,
                 aborted, histVars>>

\* the operation ids of the descriptors endpoint e has handed to its
\* descriptor callbacks
Descriptors(e) == {descriptorCbLog[e][i].id : i \in DOMAIN descriptorCbLog[e]}

\* the peer process, when it is not modelled: it has called recv once with
\* a descriptor this endpoint handed out, copied, and its Notification is
\* on the way
peerNotification(e, id) ==
  /\ Connected(e)
  /\ id \in Descriptors(e)
  /\ id \notin recvd[Peer(e)]
  /\ recvd' = [recvd EXCEPT ![Peer(e)] = @ \cup {id}]
  /\ wire' = [wire EXCEPT ![e] = Append(@, id)]
  /\ UNCHANGED <<limit, ctxVars, chanVars, loopVars, connection_, broken, thrVars,
                 aborted, calls, descriptorCbLog, sendCbLog, recvCbLog,
                 recvLog, writeLog, copyLog>>

\* ------------------------------------------------------------ the loop tasks
\* initFromLoop_ that does not call readPacket_
initFromLoop_NoRead(e, t) ==
  /\ Running(e, t, "init")
  /\ closingReceiver_' = [closingReceiver_ EXCEPT ![e] = TRUE]
  /\ pendingTasks_' =
       [pendingTasks_ EXCEPT
          ![e] = IF closingEmitter_[e]
                   THEN push_back(@, Fn("close", 0, 0, Success))
                   ELSE @]
  /\ Returned(e, t)
  /\ UNCHANGED <<limit, ctxVars, created, error_, id_, sendOperations_,
                 currentLoop_, connVars, aborted, histVars>>

\* initFromLoop_ whose closingReceiver_ misses a signal fired before
initFromLoop_Late(e, t) ==
  /\ Running(e, t, "init")
  /\ closingReceiver_' = [closingReceiver_ EXCEPT ![e] = TRUE]
  /\ connection_' = [connection_ EXCEPT ![e] = ConnectionRead(@)]
  /\ Returned(e, t)
  /\ UNCHANGED <<limit, ctxVars, created, error_, id_, sendOperations_,
                 loopVars, wire, broken, aborted, histVars>>

\* initFromLoop_: closingReceiver_.activate(*this), which calls close() at
\* once when the context's signal has fired already (close() finds this
\* thread running the loop and only appends), then readPacket_()
initFromLoop_(e, t) ==
  /\ Running(e, t, "init")
  /\ closingReceiver_' = [closingReceiver_ EXCEPT ![e] = TRUE]
  /\ pendingTasks_' =
       [pendingTasks_ EXCEPT
          ![e] = IF closingEmitter_[e]
                   THEN push_back(@, Fn("close", 0, 0, Success))
                   ELSE @]
  /\ connection_' = [connection_ EXCEPT ![e] = ConnectionRead(@)]
  /\ Returned(e, t)
  /\ UNCHANGED <<limit, ctxVars, created, error_, id_, sendOperations_,
                 currentLoop_, wire, broken, aborted, histVars>>

\* sendFromLoop_ that does not advance id_
sendFromLoop_SameId(e, t) ==
  /\ Running(e, t, "send")
  /\ IF error_[e] # Success
       THEN /\ aborted' = [aborted EXCEPT ![e] = TRUE]
            /\ UNCHANGED <<sendOperations_, descriptorCbLog, thrVars>>
       ELSE /\ sendOperations_' =
                 [sendOperations_ EXCEPT
                    ![e] = Append(@, [id |-> id_[e], cb |-> task[e][t].cb])]
            /\ descriptorCbLog' =
                 [descriptorCbLog EXCEPT
                    ![e] = Append(@, [cb |-> task[e][t].cb, id |-> id_[e]])]
            /\ Returned(e, t)
            /\ UNCHANGED aborted
  /\ UNCHANGED <<limit, ctxVars, created, error_, id_, closingReceiver_,
                 loopVars, connVars, calls, sendCbLog, recvCbLog, recvLog,
                 writeLog, recvd, copyLog>>

\* sendFromLoop_ without the assertion on error_
sendFromLoop_Unchecked(e, t) ==
  /\ Running(e, t, "send")
  /\ id_' = [id_ EXCEPT ![e] = @ + 1]
  /\ sendOperations_' =
       [sendOperations_ EXCEPT
          ![e] = Append(@, [id |-> id_[e], cb |-> task[e][t].cb])]
  /\ descriptorCbLog' =
       [descriptorCbLog EXCEPT
          ![e] = Append(@, [cb |-> task[e][t].cb, id |-> id_[e]])]
  /\ Returned(e, t)
  /\ UNCHANGED <<limit, ctxVars, created, error_, closingReceiver_, loopVars,
                 connVars, aborted, calls, sendCbLog, recvCbLog, recvLog,
                 writeLog, recvd, copyLog>>

\* sendFromLoop_: the assertion on error_, then the id, the operation
\* appended to sendOperations_ and descriptorCallback called
sendFromLoop_(e, t) ==
  /\ Running(e, t, "send")
  /\ IF error_[e] # Success
       THEN /\ aborted' = [aborted EXCEPT ![e] = TRUE]
            /\ UNCHANGED <<id_, sendOperations_, descriptorCbLog, thrVars>>
       ELSE /\ id_' = [id_ EXCEPT ![e] = @ + 1]
            /\ sendOperations_' =
                 [sendOperations_ EXCEPT
                    ![e] = Append(@, [id |-> id_[e], cb |-> task[e][t].cb])]
            /\ descriptorCbLog' =
                 [descriptorCbLog EXCEPT
                    ![e] = Append(@, [cb |-> task[e][t].cb, id |-> id_[e]])]
            /\ Returned(e, t)
            /\ UNCHANGED aborted
  /\ UNCHANGED <<limit, ctxVars, created, error_, closingReceiver_, loopVars,
                 connVars, calls, sendCbLog, recvCbLog, recvLog, writeLog, copyLog,
                 recvd>>

\* recvFromLoop_: the descriptor is loaded and the copy requested, whatever
\* error_ is
recvFromLoop_(e, t) ==
  /\ Running(e, t, "recv")
  /\ requests_' =
       [requests_ EXCEPT
          ![e] = requestCopy(@, CopyRequest(task[e][t].cb, task[e][t].id,
                                            task[e][t].arg))]
  /\ recvLog' = [recvLog EXCEPT
                   ![e] = Append(@, [cb |-> task[e][t].cb,
                                     id |-> task[e][t].id,
                                     state |-> error_[e]])]
  /\ Returned(e, t)
  /\ UNCHANGED <<limit, closed_, joined_, mutex_, closingEmitter_, chanVars,
                 loopVars, connVars, aborted, calls, descriptorCbLog,
                 sendCbLog, recvCbLog, writeLog, copyLog, recvd>>

\* closeFromLoop_ without the test of error_
closeFromLoop_Always(e, t) ==
  /\ Running(e, t, "close")
  /\ LET h == handleError_(e, ChannelClosedError)
     IN /\ error_' = [error_ EXCEPT ![e] = ChannelClosedError]
        /\ sendOperations_' = [sendOperations_ EXCEPT ![e] = h.ops]
        /\ sendCbLog' = [sendCbLog EXCEPT ![e] = h.log]
        /\ connection_' = [connection_ EXCEPT ![e] = h.conn]
  /\ Returned(e, t)
  /\ UNCHANGED <<limit, ctxVars, created, id_, closingReceiver_, loopVars, wire,
                 broken, aborted, calls, descriptorCbLog, recvCbLog, recvLog,
                 writeLog, copyLog, recvd>>

\* closeFromLoop_: the first close of a channel without error sets
\* ChannelClosedError and runs handleError_
closeFromLoop_(e, t) ==
  /\ Running(e, t, "close")
  /\ LET h == IF error_[e] = Success
                THEN handleError_(e, ChannelClosedError)
                ELSE NoError(e)
     IN /\ error_' = [error_ EXCEPT
                        ![e] = IF @ = Success THEN ChannelClosedError ELSE @]
        /\ sendOperations_' = [sendOperations_ EXCEPT ![e] = h.ops]
        /\ sendCbLog' = [sendCbLog EXCEPT ![e] = h.log]
        /\ connection_' = [connection_ EXCEPT ![e] = h.conn]
  /\ Returned(e, t)
  /\ UNCHANGED <<limit, ctxVars, created, id_, closingReceiver_, loopVars, wire,
                 broken, aborted, calls, descriptorCbLog, recvCbLog, recvLog,
                 writeLog, copyLog, recvd>>

\* DeferringTolerantCallbackWrapper, on the loop: an error handed to the
\* callback becomes the channel's error when the channel has none
TolerantSetsError(channelError, err) ==
  channelError = Success /\ err # Success

\* DeferringCallbackWrapper, on the loop: "skip" when the channel has an
\* error already, "fail" when the callback brings one, else "call"
DeferringDecision(channelError, err) ==
  IF channelError # Success THEN "skip"
  ELSE IF err # Success THEN "fail"
  ELSE "call"

\* a lambda that writes no Notification
NotifyPeerSkipped(conn, id) == conn

\* the lambda of recvFromLoop_: the Notification written to the connection
NotifyPeer(conn, id) == ConnectionWrite(conn, id)

\* a lambda that reports success to every recv callback
RecvCallbackSuccess(channelError, copyError) == Success

\* the lambda of recvFromLoop_: callback(impl.error_)
RecvCallbackError(channelError, copyError) == channelError

\* the copy callback on the loop: the tolerant wrapper, then the lambda of
\* recvFromLoop_, which writes the Notification and calls the recv callback
\* with the channel's error
copyCallback(e, t) ==
  /\ Running(e, t, "copy")
  /\ LET fn == task[e][t]
         sets == TolerantSetsError(error_[e], fn.arg)
         err == IF sets THEN fn.arg ELSE error_[e]
         h == IF sets THEN handleError_(e, err) ELSE NoError(e)
     IN /\ error_' = [error_ EXCEPT ![e] = err]
        /\ sendOperations_' = [sendOperations_ EXCEPT ![e] = h.ops]
        /\ sendCbLog' = [sendCbLog EXCEPT ![e] = h.log]
        /\ connection_' = [connection_ EXCEPT ![e] = NotifyPeer(h.conn, fn.id)]
        /\ writeLog' =
             [writeLog EXCEPT
                ![e] = IF NotifyPeer(h.conn, fn.id) = h.conn THEN @
                       ELSE Append(@, [cb |-> fn.cb, id |-> fn.id,
                                       copy |-> fn.arg,
                                       closed |-> h.conn.closed])]
        /\ recvCbLog' =
             [recvCbLog EXCEPT
                ![e] = Append(@, [cb |-> fn.cb,
                                  err |-> RecvCallbackError(err, fn.arg),
                                  copy |-> fn.arg,
                                  before |-> error_[e]])]
  /\ Returned(e, t)
  /\ UNCHANGED <<limit, ctxVars, created, id_, closingReceiver_, loopVars, wire,
                 broken, aborted, calls, descriptorCbLog, recvLog, recvd,
                 copyLog>>

\* the copy callback on the loop, with a recv callback that calls
\* Context::close() as its last statement: the thread is about to enter
\* Context::Impl::close, the task returns when that call returns
copyCallbackContextClose(e, t) ==
  /\ Running(e, t, "copy")
  /\ calls[e].ctxclose < limit.ctxclose
  /\ LET fn == task[e][t]
         sets == TolerantSetsError(error_[e], fn.arg)
         err == IF sets THEN fn.arg ELSE error_[e]
         h == IF sets THEN handleError_(e, err) ELSE NoError(e)
     IN /\ error_' = [error_ EXCEPT ![e] = err]
        /\ sendOperations_' = [sendOperations_ EXCEPT ![e] = h.ops]
        /\ sendCbLog' = [sendCbLog EXCEPT ![e] = h.log]
        /\ connection_' = [connection_ EXCEPT ![e] = NotifyPeer(h.conn, fn.id)]
        /\ writeLog' =
             [writeLog EXCEPT
                ![e] = IF NotifyPeer(h.conn, fn.id) = h.conn THEN @
                       ELSE Append(@, [cb |-> fn.cb, id |-> fn.id,
                                       copy |-> fn.arg,
                                       closed |-> h.conn.closed])]
        /\ recvCbLog' =
             [recvCbLog EXCEPT
                ![e] = Append(@, [cb |-> fn.cb,
                                  err |-> RecvCallbackError(err, fn.arg),
                                  copy |-> fn.arg,
                                  before |-> error_[e]])]
  /\ calls' = [calls EXCEPT ![e].ctxclose = @ + 1]
  /\ pc' = [pc EXCEPT ![e][t] = "ctxclose"]
  /\ task' = [task EXCEPT ![e][t] = NoFn]
  /\ UNCHANGED <<limit, ctxVars, created, id_, closingReceiver_, loopVars, wire,
                 broken, stack, aborted, descriptorCbLog, recvLog, recvd,
                 copyLog>>

\* Context::close called by the recv callback, on the thread that runs the
\* loop; the task returns to the loop afterwards
ContextCloseFromCallback(e, t) ==
  /\ ~aborted[e]
  /\ pc[e][t] = "ctxclose"
  /\ ContextImplClose(e, t, "loop")
  /\ UNCHANGED <<limit, joined_, mutex_, requests_, closingEmitter_, chanVars,
                 loopVars, connVars, task, aborted, histVars>>

\* onNotification_: the position of the send operation with the
\* notification's id (0: the assertion fails)
onNotification_(ops, id) == FindOperation(ops, id)

\* the read callback on the loop: the wrapper, then onPacket_, which is
\* onNotification_ (find, erase, callback with Success) and readPacket_
readPacketCallback(e, t) ==
  /\ Running(e, t, "read")
  /\ LET fn == task[e][t]
         d == DeferringDecision(error_[e], fn.arg)
         i == onNotification_(sendOperations_[e], fn.id)
         h == IF d = "fail" THEN handleError_(e, fn.arg) ELSE NoError(e)
     IN IF d = "call" /\ i = 0
          THEN /\ aborted' = [aborted EXCEPT ![e] = TRUE]
               /\ UNCHANGED <<error_, sendOperations_, sendCbLog,
                              connection_, thrVars>>
          ELSE /\ error_' = [error_ EXCEPT
                               ![e] = IF d = "fail" THEN fn.arg ELSE @]
               /\ sendOperations_' =
                    [sendOperations_ EXCEPT
                       ![e] = IF d = "call" THEN EraseOperation(@, i)
                              ELSE h.ops]
               /\ sendCbLog' =
                    [sendCbLog EXCEPT
                       ![e] = IF d = "call"
                                THEN Append(@, [cb |-> sendOperations_[e][i].cb,
                                                err |-> Success])
                                ELSE h.log]
               /\ connection_' =
                    [connection_ EXCEPT
                       ![e] = IF d = "call" THEN ConnectionRead(@)
                              ELSE h.conn]
               /\ Returned(e, t)
               /\ UNCHANGED aborted
  /\ UNCHANGED <<limit, ctxVars, created, id_, closingReceiver_, loopVars, wire,
                 broken, calls, descriptorCbLog, recvCbLog, recvLog, writeLog, copyLog,
                 recvd>>

\* the write callback on the loop: the wrapper, then the empty lambda
writePacketCallback(e, t) ==
  /\ Running(e, t, "write")
  /\ LET fn == task[e][t]
         d == DeferringDecision(error_[e], fn.arg)
         h == IF d = "fail" THEN handleError_(e, fn.arg) ELSE NoError(e)
     IN /\ error_' = [error_ EXCEPT ![e] = IF d = "fail" THEN fn.arg ELSE @]
        /\ sendOperations_' = [sendOperations_ EXCEPT ![e] = h.ops]
        /\ sendCbLog' = [sendCbLog EXCEPT ![e] = h.log]
        /\ connection_' = [connection_ EXCEPT ![e] = h.conn]
  /\ Returned(e, t)
  /\ UNCHANGED <<limit, ctxVars, created, id_, closingReceiver_, loopVars, wire,
                 broken, aborted, calls, descriptorCbLog, recvCbLog, recvLog,
                 writeLog, copyLog, recvd>>

\* ---------------------------------------------------------- specifications
\* the descriptors of the unmodelled peer's sends: its operation ids
PeerIds == 0..(MaxRecvs - 1)
Lengths == 0..MaxLength

\* a step of the loop, on whichever thread runs it
LoopStep(e, t) ==
  \/ loopTurn(e, t)
  \/ initFromLoop_(e, t)
  \/ sendFromLoop_(e, t)
  \/ recvFromLoop_(e, t)
  \/ closeFromLoop_(e, t)
  \/ copyCallback(e, t)
  \/ readPacketCallback(e, t)
  \/ writePacketCallback(e, t)

\* the calls a user thread makes on the channel
ChannelCall(e, u) ==
  \/ createChannel(e, u)
  \/ ChannelSend(e, u)
  \/ \E id \in PeerIds : ChannelRecv(e, u, id, MaxLength)
  \/ ChannelClose(e, u)

\* the calls a user thread makes on the context, and its steps inside them
ContextCall(e, u) ==
  \/ ContextClose(e, u)
  \/ closingEmitterClose(e, u)
  \/ pushSentinel(e, u)
  \/ ContextJoin(e, u)
  \/ joinLock(e, u)
  \/ joinExchange(e, u)
  \/ joinThread(e, u)

\* the transport's thread and the connection
TransportStep(e) ==
  \/ connectionRead(e)
  \/ connectionReadError(e)
  \/ connectionWrite(e)

\* endpoint "A" with one user thread, the worker and the transport; the
\* peer process is not modelled
Next ==
  \/ \E u \in ChannelUsers : ChannelCall("A", u) \/ ContextCall("A", u)
  \/ \E t \in Threads : LoopStep("A", t)
  \/ \E nread \in -1..MaxLength : handleCopyRequests_("A", nread)
  \/ TransportStep("A")
  \/ connectionFails("A")
  \/ \E id \in 0..(MaxSends - 1) : peerNotification("A", id)

Spec == Init /\ [][Next]_vars

\* endpoint "A" with two user threads: either may close and join the
\* context while the first one uses the channel; the peer sends nothing and
\* the connection fails only by being closed, and copies succeed
InitLive ==
  /\ Constructed
  /\ limit = [send |-> 1, recv |-> 1, close |-> 1, ctxclose |-> 1,
              join |-> MaxLiveJoins]

NextLive ==
  \/ \E u \in ChannelUsers :
       \/ createChannel("A", u)
       \/ ChannelSend("A", u)
       \/ ChannelRecv("A", u, 0, 0)
       \/ ChannelClose("A", u)
  \/ \E u \in Users : ContextCall("A", u)
  \/ \E t \in Threads : LoopStep("A", t)
  \/ handleCopyRequests_("A", 0)
  \/ connectionReadError("A")
  \/ connectionWrite("A")

\* the channel pair: process "A" sends, process "B" receives with the
\* descriptors "A" has handed out; nothing is closed, the connection does
\* not fail and every copy reads the whole buffer
InitPair ==
  /\ Constructed
  /\ limit = [send |-> MaxPairOps, recv |-> MaxPairOps, close |-> 0,
              ctxclose |-> 0, join |-> 0]

NextPair ==
  \/ \E e \in Endpoints, u \in ChannelUsers : createChannel(e, u)
  \/ \E u \in ChannelUsers : ChannelSend("A", u)
  \/ \E u \in ChannelUsers, id \in Descriptors("A") :
       ChannelRecv("B", u, id, MaxLength)
  \/ \E e \in Endpoints, t \in Threads :
       \/ loopTurn(e, t)
       \/ initFromLoop_(e, t)
       \/ sendFromLoop_(e, t)
       \/ recvFromLoop_(e, t)
       \/ copyCallback(e, t)
       \/ readPacketCallback(e, t)
       \/ writePacketCallback(e, t)
  \/ handleCopyRequests_("B", MaxLength)
  \/ connectionWrite("B")
  \/ connectionRead("A")

SpecPair == InitPair /\ [][NextPair]_vars

\* endpoint "A" receiving buffers of every length, each copy returning any
\* value process_vm_readv can return, the channel possibly closed meanwhile
InitCopy ==
  /\ Constructed
  /\ limit = [send |-> 0, recv |-> MaxCopyRecvs, close |-> MaxCloses,
              ctxclose |-> 0, join |-> 0]

NextCopy ==
  \/ \E u \in ChannelUsers :
       \/ createChannel("A", u)
       \/ \E id \in 0..(MaxCopyRecvs - 1), length \in Lengths :
            ChannelRecv("A", u, id, length)
       \/ ChannelClose("A", u)
  \/ \E t \in Threads :
       \/ loopTurn("A", t)
       \/ initFromLoop_("A", t)
       \/ recvFromLoop_("A", t)
       \/ closeFromLoop_("A", t)
       \/ copyCallback("A", t)
       \/ readPacketCallback("A", t)
       \/ writePacketCallback("A", t)
  \/ \E nread \in -1..MaxLength : handleCopyRequests_("A", nread)
  \/ connectionReadError("A")
  \/ connectionWrite("A")

SpecCopy == InitCopy /\ [][NextCopy]_vars

\* endpoint "A" receiving while its context is closed and joined: user u1
\* calls recv, user u2 closes and joins the context, each copy returns any
\* value process_vm_readv can return
InitWorker ==
  /\ Constructed
  /\ limit = [send |-> 0, recv |-> MaxCopyRecvs, close |-> 0,
              ctxclose |-> 1, join |-> 1]

NextWorker ==
  \/ createChannel("A", "u1")
  \/ \E id \in 0..(MaxCopyRecvs - 1) : ChannelRecv("A", "u1", id, MaxLength)
  \/ ContextCall("A", "u2")
  \/ \E t \in Threads :
       \/ loopTurn("A", t)
       \/ initFromLoop_("A", t)
       \/ recvFromLoop_("A", t)
       \/ closeFromLoop_("A", t)
       \/ copyCallback("A", t)
       \/ readPacketCallback("A", t)
       \/ writePacketCallback("A", t)
  \/ \E nread \in -1..MaxLength : handleCopyRequests_("A", nread)
  \/ connectionReadError("A")
  \/ connectionWrite("A")

SpecWorker == InitWorker /\ [][NextWorker]_vars

\* endpoint "A" with recv callbacks that close the context while user u2
\* joins it: user u1 calls recv, every copy reads the whole (empty) buffer
InitJoin ==
  /\ Constructed
  /\ limit = [send |-> 0, recv |-> MaxCopyRecvs, close |-> 0,
              ctxclose |-> MaxCopyRecvs, join |-> 1]

\* a step of the loop of endpoint "A" on thread t
LoopStepJoin(t) ==
  \/ loopTurn("A", t)
  \/ initFromLoop_("A", t)
  \/ recvFromLoop_("A", t)
  \/ closeFromLoop_("A", t)
  \/ copyCallback("A", t)
  \/ copyCallbackContextClose("A", t)
  \/ readPacketCallback("A", t)
  \/ writePacketCallback("A", t)

\* a step of thread t inside Context::close or Context::join
ContextStepJoin(t) ==
  \/ ContextCloseFromCallback("A", t)
  \/ closingEmitterClose("A", t)
  \/ pushSentinel("A", t)
  \/ joinLock("A", t)
  \/ joinExchange("A", t)
  \/ joinThread("A", t)

NextJoin ==
  \/ createChannel("A", "u1")
  \/ \E id \in 0..(MaxCopyRecvs - 1) : ChannelRecv("A", "u1", id, 0)
  \/ ContextJoin("A", "u2")
  \/ \E t \in Threads : LoopStepJoin(t)
  \/ \E t \in Threads : ContextStepJoin(t)
  \/ handleCopyRequests_("A", 0)
  \/ connectionReadError("A")
  \/ connectionWrite("A")

\* threads are scheduled: the worker runs, tasks return, a thread inside a
\* call of the context goes on
SpecJoin ==
  /\ InitJoin
  /\ [][NextJoin]_vars
  /\ WF_vars(handleCopyRequests_("A", 0))
  /\ \A t \in Threads : WF_vars(LoopStepJoin(t))
  /\ \A t \in Threads : WF_vars(ContextStepJoin(t))

\* a user thread inside Context::close or Context::join goes on
InsideContextCall(e, u) ==
  \/ closingEmitterClose(e, u)
  \/ pushSentinel(e, u)
  \/ joinLock(e, u)
  \/ joinExchange(e, u)
  \/ joinThread(e, u)

\* threads are scheduled: the worker runs, tasks and user callbacks return,
\* a thread inside a call of the context goes on
SpecLive ==
  /\ InitLive
  /\ [][NextLive]_vars
  /\ WF_vars(handleCopyRequests_("A", 0))
  /\ \A t \in Threads : WF_vars(LoopStep("A", t))
  /\ \A u \in Users : WF_vars(InsideContextCall("A", u))

\* ------------------------------------------------------------------ claims
\* how often the callback cb was invoked, by a log of callbacks
Count(log, cb) == Cardinality({i \in DOMAIN log : log[i].cb = cb})

\* the loop has drained: no task is pending and no thread runs the loop
Drained(e) == currentLoop_[e] = NoThread /\ pendingTasks_[e] = <<>>

\* user thread u is inside Channel::close
InChannelClose(e, u) == "closed" \in Range(stack[e][u])

\* user thread u is inside Context::join
InJoin(e, u) ==
  \/ pc[e][u] \in {"join", "joined", "thread_join"}
  \/ "joined" \in Range(stack[e][u])

\* some call of Channel::close has returned to the user
CloseReturned(e) ==
  calls[e].close > Cardinality({u \in Users : InChannelClose(e, u)})

\* some call of Context::join has returned to the user
JoinReturned(e) ==
  calls[e].join > Cardinality({u \in Users : InJoin(e, u)})

\* C1: the callback of a send is never invoked more than once, and once
\* the channel's error is set and the loop has drained the callback of
\* every send call has been invoked exactly once
C1_SendCallbackOnce ==
  \A e \in Endpoints :
    /\ \A cb \in 0..(calls[e].send - 1) : Count(sendCbLog[e], cb) <= 1
    /\ (error_[e] # Success /\ Drained(e)) =>
         \A cb \in 0..(calls[e].send - 1) : Count(sendCbLog[e], cb) = 1

\* C1 witness: two sends, one completed by its notification, the other
\* failed by the error, the loop drained
C1_Witness ==
  /\ error_["A"] # Success
  /\ Drained("A")
  /\ calls["A"].send = 2
  /\ \E i, j \in DOMAIN sendCbLog["A"] :
       /\ sendCbLog["A"][i].err = Success
       /\ sendCbLog["A"][j].err # Success

\* C2 (as claimed): once the worker has left handleCopyRequests_ and the
\* loop has drained, the callback of every recv call has been invoked
\* exactly once
C2_RecvCallbackOnce ==
  \A e \in Endpoints :
    (pc[e][Worker] = "exited" /\ Drained(e)) =>
      \A cb \in 0..(calls[e].recv - 1) : Count(recvCbLog[e], cb) = 1

\* C3: in every step that sets the channel's error, the callback of every
\* send operation in flight is invoked once with that error, the in-flight
\* list becomes empty and the connection is closed; the error set by
\* closeFromLoop_ is ChannelClosedError
C3_ErrorFailsSends ==
  [][\A e \in Endpoints :
       (error_[e] = Success /\ error_'[e] # Success) =>
         /\ sendOperations_'[e] = <<>>
         /\ connection_'[e].closed
         /\ Len(sendCbLog'[e]) = Len(sendCbLog[e]) + Len(sendOperations_[e])
         /\ \A i \in DOMAIN sendOperations_[e] :
              \E j \in (Len(sendCbLog[e]) + 1)..Len(sendCbLog'[e]) :
                /\ sendCbLog'[e][j].cb = sendOperations_[e][i].cb
                /\ sendCbLog'[e][j].err = error_'[e]
         /\ task[e][currentLoop_[e]].type = "close" =>
              error_'[e] = ChannelClosedError
    ]_vars

\* C3 witness: close() failed two sends in flight with ChannelClosedError
\* and closed the connection
C3_Witness ==
  /\ error_["A"] = ChannelClosedError
  /\ sendOperations_["A"] = <<>>
  /\ connection_["A"].closed
  /\ Len(sendCbLog["A"]) = 2
  /\ \A i \in DOMAIN sendCbLog["A"] :
       sendCbLog["A"][i].err = ChannelClosedError

\* a user callback is invoked in this step
CallbackInvoked(e) ==
  \/ descriptorCbLog'[e] # descriptorCbLog[e]
  \/ sendCbLog'[e] # sendCbLog[e]
  \/ recvCbLog'[e] # recvCbLog[e]

\* C4 (as claimed): once a call of the channel's close() has returned and
\* a call of the context's join() has returned, no user callback of the
\* channel is invoked
C4_NoCallbackAfterJoin ==
  [][\A e \in Endpoints :
       (CloseReturned(e) /\ JoinReturned(e)) => ~CallbackInvoked(e)]_vars

\* the recv callback invoked in this step, when there is one
RecvCallbackInvoked(e) == Len(recvCbLog'[e]) = Len(recvCbLog[e]) + 1
LastRecvCallback(e) == recvCbLog'[e][Len(recvCbLog'[e])]

C7_NotifyOnlyOnSuccess ==
  \A e \in Endpoints :
    \A i \in DOMAIN writeLog[e] : writeLog[e][i].copy = Success

\* the copy request of the recv cb is outstanding: queued at the worker, or
\* done with its callback still to run on the loop
Outstanding(e, cb) ==
  \/ \E i \in DOMAIN requests_[e] : requests_[e][i].rid = cb
  \/ \E i \in DOMAIN pendingTasks_[e] :
       pendingTasks_[e][i].type = "copy" /\ pendingTasks_[e][i].cb = cb
  \/ \E t \in Threads : task[e][t].type = "copy" /\ task[e][t].cb = cb

\* C8 (as claimed): after close() has set ChannelClosedError, once the
\* worker has left and the loop has drained, every recv that had run on the
\* loop before the close and had not completed by then has had its
\* callback invoked exactly once, with ChannelClosedError
C8_OutstandingRecvClosed ==
  \A e \in Endpoints :
    (error_[e] = ChannelClosedError /\ pc[e][Worker] = "exited" /\ Drained(e))
      => \A i \in DOMAIN recvLog[e] :
           (/\ recvLog[e][i].state = Success
            /\ ~\E j \in DOMAIN recvCbLog[e] :
                  /\ recvCbLog[e][j].cb = recvLog[e][i].cb
                  /\ recvCbLog[e][j].before = Success) =>
             /\ Count(recvCbLog[e], recvLog[e][i].cb) = 1
             /\ \A j \in DOMAIN recvCbLog[e] :
                  recvCbLog[e][j].cb = recvLog[e][i].cb =>
                    recvCbLog[e][j].err = ChannelClosedError

\* the descriptor id the recv cb was called with
DescriptorOf(e, cb) ==
  recvLog[e][CHOOSE i \in DOMAIN recvLog[e] : recvLog[e][i].cb = cb].id

\* C10: in the step that invokes a recv callback with Success, the write
\* of the Notification with the descriptor's id has been issued and is
\* still pending at the connection: the callback does not wait for it
C10_NotifyBeforeCallback ==
  [][\A e \in Endpoints :
       (RecvCallbackInvoked(e) /\ LastRecvCallback(e).err = Success) =>
         LET cb == LastRecvCallback(e).cb
         IN /\ \E i \in DOMAIN writeLog'[e] :
                 /\ writeLog'[e][i].cb = cb
                 /\ writeLog'[e][i].id = DescriptorOf(e, cb)
            /\ connection_'[e].writes # <<>>
            /\ connection_'[e].writes[Len(connection_'[e].writes)]
                 = DescriptorOf(e, cb)]_vars

\* C10 witness: a recv callback has received Success and the write of its
\* Notification has not completed
C10_Witness ==
  \E i \in DOMAIN recvCbLog["A"] :
    /\ recvCbLog["A"][i].err = Success
    /\ DescriptorOf("A", recvCbLog["A"][i].cb) \in Range(connection_["A"].writes)

\* nothing has happened at the transport of endpoint e and no recv was
\* called: only user threads have run the loop
Quiet(e) ==
  /\ calls[e].recv = 0
  /\ ~broken
  /\ wire[e] = <<>>
  /\ pc[e][Transport] = "idle"
  /\ \A i \in DOMAIN sendCbLog[e] : sendCbLog[e][i].err # Success
  /\ \A i \in DOMAIN sendCbLog[e] : sendCbLog[e][i].err # TransportError

IdOfSend(e, cb) ==
  descriptorCbLog[e][CHOOSE i \in DOMAIN descriptorCbLog[e] :
                       descriptorCbLog[e][i].cb = cb].id

\* C9: with "A" sending, "B" receiving and no error, the send callbacks of
\* "A" are invoked with Success in the order in which the recvs ran on the
\* loop of "B"
C9_SendCallbackOrder ==
  /\ Len(sendCbLog["A"]) <= Len(recvLog["B"])
  /\ \A i \in DOMAIN sendCbLog["A"] :
       /\ sendCbLog["A"][i].err = Success
       /\ IdOfSend("A", sendCbLog["A"][i].cb) = recvLog["B"][i].id

\* C9 witness: "B" ran the recv of the later operation id first, and both
\* send callbacks of "A" have been invoked
C9_Witness ==
  /\ Len(sendCbLog["A"]) = MaxPairOps
  /\ Len(recvLog["B"]) = MaxPairOps
  /\ recvLog["B"][1].id > recvLog["B"][2].id

\* the invocations of process_vm_readv for the recv cb
CopiesOf(e, cb) == {i \in DOMAIN copyLog[e] : copyLog[e][i].cb = cb}

\* C11: a recv callback invoked on a channel without error follows one
\* invocation of process_vm_readv and receives SystemError for the return
\* value -1, ShortReadError for another value different from the length,
\* Success for the length; a copy of length 0 that returns 0 gives Success
\* and a Notification
C11_CopyOutcome ==
  \A e \in Endpoints :
    \A i \in DOMAIN recvCbLog[e] :
      recvCbLog[e][i].before = Success =>
        /\ Cardinality(CopiesOf(e, recvCbLog[e][i].cb)) = 1
        /\ \A j \in CopiesOf(e, recvCbLog[e][i].cb) :
             LET n == copyLog[e][j].nread
                 length == copyLog[e][j].length
             IN /\ (n = -1) => recvCbLog[e][i].err = SystemError
                /\ (n # -1 /\ n # length) =>
                     recvCbLog[e][i].err = ShortReadError
                /\ (n = length) =>
                     /\ recvCbLog[e][i].err = Success
                     /\ \E w \in DOMAIN writeLog[e] :
                          /\ writeLog[e][w].cb = recvCbLog[e][i].cb
                          /\ ~writeLog[e][w].closed

\* C11 witness: a copy of length 0 returned 0 and its recv callback
\* received Success, and a copy returned less than its length and its recv
\* callback received ShortReadError
C11_Witness ==
  /\ \E i \in DOMAIN recvCbLog["A"], j \in DOMAIN copyLog["A"] :
       /\ copyLog["A"][j].cb = recvCbLog["A"][i].cb
       /\ copyLog["A"][j].length = 0
       /\ copyLog["A"][j].nread = 0
       /\ recvCbLog["A"][i].err = Success
  /\ \E i \in DOMAIN recvCbLog["A"], j \in DOMAIN copyLog["A"] :
       /\ copyLog["A"][j].cb = recvCbLog["A"][i].cb
       /\ copyLog["A"][j].nread = 0
       /\ copyLog["A"][j].length > 0
       /\ recvCbLog["A"][i].err = ShortReadError

\* closeFromLoop_ is queued on the loop of endpoint e, or is the task in hand
ClosePending(e) ==
  \/ \E i \in DOMAIN pendingTasks_[e] : pendingTasks_[e][i].type = "close"
  \/ \E t \in Threads : task[e][t].type = "close"

\* C12: once the context's closing signal has fired, an initialised channel
\* of the context has its error set or its close queued on the loop, also
\* when it was created after the signal; the close of a channel without
\* error sets ChannelClosedError and empties the in-flight list
C12_ContextCloseClosesChannel ==
  /\ [](\A e \in Endpoints :
          (closingEmitter_[e] /\ closingReceiver_[e]) =>
            /\ error_[e] # Success \/ ClosePending(e)
            /\ (Drained(e) /\ ~aborted[e]) =>
                 error_[e] # Success /\ sendOperations_[e] = <<>>)
  /\ [][\A e \in Endpoints :
          (/\ error_[e] = Success
           /\ \E t \in Threads :
                pc[e][t] = "task" /\ task[e][t].type = "close"
                  /\ pc'[e][t] = "loop") =>
            /\ error_'[e] = ChannelClosedError
            /\ sendOperations_'[e] = <<>>
            /\ Len(sendCbLog'[e]) = Len(sendCbLog[e]) + Len(sendOperations_[e])
    ]_vars

\* C12 witness: Context::close alone (no Channel::close was called) has
\* failed a send in flight with ChannelClosedError
C12_Witness ==
  /\ closingEmitter_["A"]
  /\ calls["A"].close = 0
  /\ calls["A"].join = 0
  /\ error_["A"] = ChannelClosedError
  /\ Drained("A")
  /\ \E i \in DOMAIN sendCbLog["A"] :
       sendCbLog["A"][i].err = ChannelClosedError

\* thread t is inside Context::Impl::close, past the compare_exchange
InContextClose(e, t) ==
  \/ pc[e][t] \in {"emit", "sentinel"}
  \/ "sentinel" \in Range(stack[e][t])

\* how often nullopt has been pushed to requests_: the sentinels in the
\* queue and the one the worker has popped
SentinelsPushed(e) ==
  Cardinality({i \in DOMAIN requests_[e] : requests_[e][i] = NullOpt})
    + (IF pc[e][Worker] = "exited" THEN 1 ELSE 0)

\* C13: with repeated and concurrent close() and join(), closed_ and
\* joined_ never go back to false, joined_ implies closed_, one thread at
\* most fires the closing signal and pushes the sentinel, namely the one
\* that sets closed_, and it does so once; one thread at most calls
\* thread_.join(), namely the one that sets joined_
C13_CloseJoinOnce ==
  /\ [](\A e \in Endpoints :
          /\ joined_[e] => closed_[e]
          /\ closingEmitter_[e] => closed_[e]
          /\ SentinelsPushed(e) <= 1
          /\ Cardinality({t \in Threads : InContextClose(e, t)}) <= 1
          /\ Cardinality({t \in Threads : pc[e][t] = "thread_join"}) <= 1
          /\ (closed_[e] /\ \A t \in Threads : ~InContextClose(e, t)) =>
               closingEmitter_[e] /\ SentinelsPushed(e) = 1)
  /\ [][\A e \in Endpoints :
          /\ closed_[e] => closed_'[e]
          /\ joined_[e] => joined_'[e]
          /\ closingEmitter_[e] => closingEmitter_'[e]
          /\ SentinelsPushed(e) <= SentinelsPushed(e)'
          /\ \A t \in Threads :
               /\ (~InContextClose(e, t) /\ InContextClose(e, t)') =>
                    ~closed_[e] /\ closed_'[e]
               /\ (pc[e][t] # "thread_join" /\ pc'[e][t] = "thread_join") =>
                    ~joined_[e] /\ joined_'[e]
    ]_vars

\* C13 witness: Context::close was called and both calls of join() have
\* returned, the second after joined_ was set
C13_Witness ==
  /\ calls["A"].ctxclose = 1
  /\ calls["A"].join = MaxLiveJoins
  /\ \A u \in Users : pc["A"][u] = "idle"
  /\ joined_["A"]
  /\ SentinelsPushed("A") = 1

\* thread t runs the task of a send in this step
SendRuns(e, t) ==
  /\ pc[e][t] = "task"
  /\ task[e][t].type = "send"
  /\ ~aborted[e]
  /\ pc'[e][t] # "task" \/ aborted'[e]

\* C14: a send that runs on the loop of a channel whose error is set ends
\* in the fatal assertion: no id is allocated, no operation is appended,
\* no callback is invoked in that step, and none of the callbacks of that
\* send has been invoked in any state after it
C14_SendOnFailedAsserts ==
  /\ [][\A e \in Endpoints : \A t \in Threads :
          (SendRuns(e, t) /\ error_[e] # Success) =>
            /\ aborted'[e]
            /\ id_'[e] = id_[e]
            /\ sendOperations_'[e] = sendOperations_[e]
            /\ descriptorCbLog'[e] = descriptorCbLog[e]
            /\ sendCbLog'[e] = sendCbLog[e]
    ]_vars
  /\ [](\A e \in Endpoints : \A t \in Threads :
          (aborted[e] /\ pc[e][t] = "task" /\ task[e][t].type = "send") =>
            /\ Count(sendCbLog[e], task[e][t].cb) = 0
            /\ Count(descriptorCbLog[e], task[e][t].cb) = 0)

\* C14 witness: a send ran after a transport error had failed the channel
\* and ended in the assertion
C14_Witness ==
  \E t \in Threads :
    /\ aborted["A"]
    /\ pc["A"][t] = "task"
    /\ task["A"][t].type = "send"
    /\ error_["A"] = TransportError

\* C15: the sends of a channel get the ids 0, 1, 2, ... in the order in
\* which they run on the loop, id_ is the number of ids given, and the ids
\* in the in-flight list are increasing along the list, hence pairwise
\* distinct, and smaller than id_
C15_IdsIncrease ==
  \A e \in Endpoints :
    /\ id_[e] = Len(descriptorCbLog[e])
    /\ \A i \in DOMAIN descriptorCbLog[e] : descriptorCbLog[e][i].id = i - 1
    /\ \A i \in DOMAIN sendOperations_[e] : sendOperations_[e][i].id < id_[e]
    /\ \A i, j \in DOMAIN sendOperations_[e] :
         i < j => sendOperations_[e][i].id < sendOperations_[e][j].id

\* C15 witness: three sends have run, the second has completed, the first
\* and the third are in flight
C15_Witness ==
  /\ id_["A"] = MaxPairOps
  /\ Len(sendOperations_["A"]) = 2
  /\ sendOperations_["A"][1].id = 0
  /\ sendOperations_["A"][2].id = 2

\* thread t is inside the while loop of deferToLoop_
InLoop(e, t) == pc[e][t] \in {"loop", "task"}

\* C16: a thread inside the while loop of deferToLoop_ is the one
\* currentLoop_ names, so one thread at most runs the loop and one task at
\* most is executing; a thread that appends a task while it runs one
\* starts no second loop: it stays the runner and its call stack is the
\* same when the task returns
C16_OneRunner ==
  /\ [](\A e \in Endpoints :
          /\ \A t \in Threads : InLoop(e, t) => currentLoop_[e] = t
          /\ Cardinality({t \in Threads : InLoop(e, t)}) <= 1
          /\ Cardinality({t \in Threads : pc[e][t] = "task"}) <= 1)
  /\ [][\A e \in Endpoints : \A t \in Threads :
          (pc[e][t] = "task" /\ ~aborted'[e]) =>
            /\ stack'[e][t] = stack[e][t]
            /\ currentLoop_'[e] = t
            /\ pc'[e][t] \in {"task", "loop"}
            /\ \A o \in Threads \ {t} : ~InLoop(e, o)'
    ]_vars

\* C16 witness: the worker runs a task while a task deferred by another
\* thread waits in the queue, and the second user thread is inside a call
C16_Witness ==
  /\ currentLoop_["A"] = Worker
  /\ pc["A"][Worker] = "task"
  /\ pendingTasks_["A"] # <<>>
  /\ pc["A"]["u2"] # "idle"

\* C17: whenever no thread runs the loop the task queue is empty, and a
\* task waiting in the queue is taken from it eventually: the queue
\* drains, unless a task ends in a fatal assertion instead of returning
C17_NoTaskLost ==
  /\ [](\A e \in Endpoints :
          currentLoop_[e] = NoThread => pendingTasks_[e] = <<>>)
  /\ \A e \in Endpoints :
       (pendingTasks_[e] # <<>>) ~> (pendingTasks_[e] = <<>> \/ aborted[e])

\* C17 witness: a task was appended while another thread ran the loop, the
\* producer has returned, and the runner has since found the queue empty
\* and left with every task executed
C17_Witness ==
  /\ Drained("A")
  /\ ~aborted["A"]
  /\ calls["A"].send = 1
  /\ calls["A"].recv = 1
  /\ calls["A"].close = 1
  /\ Len(descriptorCbLog["A"]) = 1
  /\ Len(recvLog["A"]) = 1
  /\ Len(recvCbLog["A"]) = 1
  /\ error_["A"] = ChannelClosedError

\* the tasks of a channel after its initialisation
LaterTasks == {"send", "recv", "close", "copy", "read", "write"}

\* C18: the task queue only grows at its end and only shrinks at its
\* front, by the task the runner takes to execute next, whichever thread
\* the runner is; and no other task of the channel runs before
\* initFromLoop_ has run
C18_TasksInOrder ==
  /\ [][\A e \in Endpoints :
          \/ pendingTasks_'[e] = pendingTasks_[e]
          \/ /\ Len(pendingTasks_'[e]) = Len(pendingTasks_[e]) + 1
             /\ SubSeq(pendingTasks_'[e], 1, Len(pendingTasks_[e]))
                  = pendingTasks_[e]
          \/ /\ pendingTasks_[e] # <<>>
             /\ pendingTasks_'[e] = Tail(pendingTasks_[e])
             /\ currentLoop_[e] # NoThread
             /\ task'[e][currentLoop_[e]] = Head(pendingTasks_[e])
             /\ pc'[e][currentLoop_[e]] = "task"
    ]_vars
  /\ [](\A e \in Endpoints : \A t \in Threads :
          (pc[e][t] = "task" /\ task[e][t].type \in LaterTasks) =>
            closingReceiver_[e])
  /\ [](\A e \in Endpoints :
          (created[e] /\ ~closingReceiver_[e]) =>
            \/ pendingTasks_[e] # <<>> /\ Head(pendingTasks_[e]).type = "init"
            \/ \E t \in Threads : task[e][t].type = "init")

\* C18 witness: the worker runs the loop while two tasks deferred by a user
\* thread wait in the queue in the order of the calls
C18_Witness ==
  /\ currentLoop_["A"] = Worker
  /\ Len(pendingTasks_["A"]) >= 2
  /\ pendingTasks_["A"][1].type = "send"
  /\ pendingTasks_["A"][2].type = "close"

\* the assertion of onNotification_ has failed at endpoint e: the endpoint
\* stopped inside a read task
NotificationAssertFailed(e) ==
  aborted[e] /\ \E t \in Threads :
                  pc[e][t] = "task" /\ task[e][t].type = "read"

\* C19: with a peer that notifies at most once per descriptor, the
\* assertion of onNotification_ never fails, in any interleaving of send,
\* peer notification, close and transport errors; every descriptor handed
\* to a descriptor callback belongs to an operation that is in the list or
\* whose send callback has been invoked
C19_NotificationFindsOperation ==
  \A e \in Endpoints :
    /\ ~NotificationAssertFailed(e)
    /\ \A i \in DOMAIN descriptorCbLog[e] :
         \/ FindOperation(sendOperations_[e], descriptorCbLog[e][i].id) # 0
         \/ \E j \in DOMAIN sendCbLog[e] :
              sendCbLog[e][j].cb = descriptorCbLog[e][i].cb

\* C19 witness: onNotification_ has found and completed one operation, the
\* channel has failed since, and the notification of another descriptor is
\* in a read task about to run
C19_Witness ==
  /\ \E j \in DOMAIN sendCbLog["A"] : sendCbLog["A"][j].err = Success
  /\ error_["A"] # Success
  /\ \E t \in Threads :
       /\ Running("A", t, "read")
       /\ task["A"][t].arg = Success
       /\ task["A"][t].id \in Descriptors("A")

\* C20: the channel's error, once set, is never cleared or replaced;
\* handleError_ runs exactly in the step that sets the error, so the channel
\* closes its connection at most once and invokes error callbacks only
\* then; and no transport read is issued in or after the step that sets
\* the error
C20_ErrorSetOnce ==
  /\ [](\A e \in Endpoints :
          /\ connection_[e].closes <= 1
          /\ connection_[e].closes = (IF error_[e] = Success THEN 0 ELSE 1))
  /\ [][\A e \in Endpoints :
          /\ error_[e] # Success => error_'[e] = error_[e]
          /\ error_'[e] # Success =>
               connection_'[e].reads <= connection_[e].reads
          /\ error_[e] # Success =>
               /\ sendOperations_'[e] = <<>>
               /\ sendCbLog'[e] = sendCbLog[e]
    ]_vars

\* C20 witness: a transport error failed the channel, then a close ran and
\* a copy error reached the channel, and the error is the transport's
C20_Witness ==
  /\ error_["A"] = TransportError
  /\ calls["A"].close = 1
  /\ ~ClosePending("A")
  /\ Drained("A")
  /\ \E i \in DOMAIN recvCbLog["A"] :
       /\ recvCbLog["A"][i].copy # Success
       /\ recvCbLog["A"][i].before = TransportError

\* C21: an initialised channel never has more than one transport read
\* outstanding, and an initialised channel without error whose loop is
\* idle has exactly one; a read is issued only by initFromLoop_ and by the
\* read callback that has processed a notification, one read each
C21_OneRead ==
  /\ [](\A e \in Endpoints :
          /\ connection_[e].reads <= 1
          /\ ~closingReceiver_[e] => connection_[e].reads = 0
          /\ (closingReceiver_[e] /\ error_[e] = Success /\ Drained(e)) =>
               connection_[e].reads = 1)
  /\ [][\A e \in Endpoints :
          connection_'[e].reads > connection_[e].reads =>
            /\ connection_'[e].reads = connection_[e].reads + 1
            /\ \/ ~closingReceiver_[e] /\ closingReceiver_'[e]
               \/ /\ Len(sendCbLog'[e]) = Len(sendCbLog[e]) + 1
                  /\ sendCbLog'[e][Len(sendCbLog'[e])].err = Success
    ]_vars

\* C21 witness: a notification has been processed, the channel has no
\* error, the loop is idle and the re-armed read is outstanding
C21_Witness ==
  /\ \E j \in DOMAIN sendCbLog["A"] : sendCbLog["A"][j].err = Success
  /\ closingReceiver_["A"]
  /\ error_["A"] = Success
  /\ Drained("A")
  /\ connection_["A"].reads = 1

\* thread t processes a Notification at endpoint e in this step: its read
\* task, without error on a channel without error, returns
NotificationProcessed(e, t) ==
  /\ Running(e, t, "read")
  /\ task[e][t].arg = Success
  /\ error_[e] = Success
  /\ pc'[e][t] = "loop"

\* the operations of ops but those with operation id id, in their order
OperationsBut(ops, id) == SelectSeq(ops, LAMBDA op : op.id # id)

\* C22: the step that processes Notification{id} on a channel without error
\* removes exactly the one in-flight operation with that id and invokes its
\* callback with Success, and nothing else: the other operations stay, in
\* their order, and no other send callback is invoked
C22_NotificationFrame ==
  [][\A e \in Endpoints : \A t \in Threads :
       NotificationProcessed(e, t) =>
         LET id == task[e][t].id
             ops == sendOperations_[e]
         IN /\ \E i \in DOMAIN ops :
                 /\ ops[i].id = id
                 /\ sendCbLog'[e] =
                      Append(sendCbLog[e], [cb |-> ops[i].cb, err |-> Success])
            /\ sendOperations_'[e] = OperationsBut(ops, id)
            /\ Len(sendOperations_'[e]) = Len(ops) - 1
            /\ error_'[e] = Success
            /\ descriptorCbLog'[e] = descriptorCbLog[e]
    ]_vars

\* C22 witness: of three in-flight operations the middle one has been
\* completed by its notification, the first and the last are still in the
\* list, in their order
C22_Witness ==
  /\ Len(sendOperations_["A"]) = 2
  /\ sendOperations_["A"][1].id = 0
  /\ sendOperations_["A"][2].id = 2
  /\ Len(sendCbLog["A"]) = 1
  /\ sendCbLog["A"][1].err = Success
  /\ error_["A"] = Success

\* the copy requests of a queue, without the shutdown sentinel
CopyRequests(requests) == SelectSeq(requests, LAMBDA req : req # NullOpt)

\* the copy tasks of endpoint e that are queued on the loop or running
CopyTasks(e) ==
  Cardinality({i \in DOMAIN pendingTasks_[e] :
                 pendingTasks_[e][i].type = "copy"})
    + Cardinality({t \in Threads : task[e][t].type = "copy"})

\* C23: the worker leaves handleCopyRequests_ only in the step that pops the
\* shutdown sentinel, whatever the copies returned; the queue is first in
\* first out, the requests are executed one per step in the order of their
\* enqueueing, none twice and none skipped, and each executed request has
\* had its callback called once; so when the worker has exited every
\* request enqueued before the sentinel has been executed
C23_WorkerExitsOnSentinel ==
  /\ [][\A e \in Endpoints :
          /\ (pc[e][Worker] # "exited" /\ pc'[e][Worker] = "exited") =>
               /\ requests_[e] # <<>>
               /\ Head(requests_[e]) = NullOpt
               /\ copyLog'[e] = copyLog[e]
          /\ \/ requests_'[e] = requests_[e]
             \/ \E req \in {NullOpt} \cup
                           {CopyRequest(rid, id, len) :
                              rid \in 0..MaxCopyRecvs, id \in 0..MaxCopyRecvs,
                              len \in Lengths} :
                  requests_'[e] = Append(requests_[e], req)
             \/ /\ requests_[e] # <<>>
                /\ requests_'[e] = Tail(requests_[e])
                /\ pc[e][Worker] = "pop"
                /\ \/ Head(requests_[e]) = NullOpt
                   \/ /\ Len(copyLog'[e]) = Len(copyLog[e]) + 1
                      /\ copyLog'[e][Len(copyLog'[e])].cb
                           = Head(requests_[e]).rid
    ]_vars
  /\ [](\A e \in Endpoints :
          /\ Len(copyLog[e]) + Len(CopyRequests(requests_[e]))
               = Len(recvLog[e])
          /\ \A i \in DOMAIN copyLog[e] : copyLog[e][i].cb = recvLog[e][i].cb
          /\ \A i \in DOMAIN CopyRequests(requests_[e]) :
               CopyRequests(requests_[e])[i].rid
                 = recvLog[e][Len(copyLog[e]) + i].cb
          /\ CopyTasks(e) + Len(recvCbLog[e]) = Len(copyLog[e])
          /\ pc[e][Worker] = "exited" => NullOpt \notin Range(requests_[e]))

\* C23 witness: the first copy failed, the worker went on to execute the
\* second request, and exited on the sentinel with both callbacks called
C23_Witness ==
  /\ pc["A"][Worker] = "exited"
  /\ Len(copyLog["A"]) = 2
  /\ copyLog["A"][1].nread = -1
  /\ Len(recvCbLog["A"]) = 2

\* thread t is inside a Context::close() called by a recv callback, or
\* about to enter it
InCallbackClose(e, t) == pc[e][t] = "ctxclose" \/ InContextClose(e, t)

\* C24: Context::Impl::close takes and releases no lock, only a thread in
\* join() changes mutex_; a close() called by a callback on the worker
\* returns, also while a user thread is in join() holding mutex_ and
\* waiting for the worker, after which the worker pops the sentinel and
\* join() returns (unless a fatal assertion ends the process)
C24_CloseInCallbackNoDeadlock ==
  /\ [][\A e \in Endpoints :
          mutex_'[e] # mutex_[e] =>
            \E u \in Users :
              /\ pc[e][u] \in {"join", "joined", "thread_join"}
              /\ pc'[e][u] # pc[e][u]
              /\ {mutex_[e], mutex_'[e]} = {NoThread, u}
    ]_vars
  /\ InCallbackClose("A", Worker) ~>
       (~InCallbackClose("A", Worker) \/ aborted["A"])
  /\ \A u \in Users :
       (InJoin("A", u) /\ mutex_["A"] = u /\ InCallbackClose("A", Worker)) ~>
         \/ /\ ~InJoin("A", u)
            /\ pc["A"][Worker] = "exited"
            /\ mutex_["A"] = NoThread
         \/ aborted["A"]

\* C24 witness: user u2 is in join(), holds mutex_ and waits for the
\* worker, while the worker is inside the close() its recv callback called
C24_Witness ==
  /\ pc["A"]["u2"] = "thread_join"
  /\ mutex_["A"] = "u2"
  /\ InCallbackClose("A", Worker)
  /\ recvCbLog["A"] # <<>>

====
